---- MODULE Spec2Model ----
(***************************************************************************)
(* Model of the areum JSX runtime (src/src/ts/jsx-runtime.ts, lines 1-187) *)
(* and of its page loader (src/src/ts/loader.ts, lines 1-24).              *)
(*                                                                         *)
(* BuilderNodes (JSX.Element objects) live in a heap of objects with       *)
(* identity, because render() propagates scopes by writing the __scope key *)
(* of their props in place.  render, applyScope, renderChildren and        *)
(* runScript are recursive functions of the source and are modelled as     *)
(* recursive operators that thread the heap, the scope allocator and a log *)
(* of the writes to __scope.                                               *)
(***************************************************************************)
EXTENDS Integers, Sequences, FiniteSets, TLC

VARIABLES heap, stack, ctr, renders, hyd, gen

vars == <<heap, stack, ctr, renders, hyd, gen>>

(***************************************************************************)
(* Bounds of the model.                                                    *)
(***************************************************************************)
\* elements built by jsx plus strings and holes placed in child arrays
MaxSize == 3
\* calls of render on built trees
MaxRenders == 2
\* entries of a generator module
MaxMods == 2

(***************************************************************************)
(* Values.  JSX.Children = string | Element | Children[] (or undefined).   *)
(* A child is absent (undefined), a string, a reference to an element of   *)
(* the heap, or an array of children.                                      *)
(***************************************************************************)
Absent == [t |-> "abs"]
Str(s) == [t |-> "str", s |-> s]
Ref(i) == [t |-> "ref", id |-> i]
Arr(items) == [t |-> "arr", items |-> items]

NoProps == [p |-> "none"]
PageProps(path, generator) == [p |-> "page", path |-> path, generator |-> generator]

\* no __scope key (a resolved node then carries the empty string)
NoScope == 0

(***************************************************************************)
(* Element references: tag names, the Fragment function, and components.   *)
(***************************************************************************)
Fragment == "Fragment"
Tags == {"div"}
Comps == {"Layout", "Greeting", "Nest"}

IsFunction(e) == e \in Comps \cup {Fragment}

\* jsx(element, props): children are split off the props, the rest is kept.
Jsx(element, children, rest) ==
  [element |-> element, children |-> children, scope |-> NoScope, rest |-> rest]

(***************************************************************************)
(* The resolver state threaded through one call of render: the heap, the   *)
(* scope allocator, and the log of the writes made to __scope keys.        *)
(***************************************************************************)
ResolverState(h, c) == [heap |-> h, ctr |-> c, log |-> <<>>]

\* randString(8): a token no earlier call returned.
RandString(st) == st.ctr + 1

\* the write done as element.props = {__scope: scope}: the other props go
WriteScopeReplacingProps(st, id, scope, stage) ==
  [st EXCEPT !.heap[id].scope = scope,
             !.heap[id].rest = NoProps,
             !.log = Append(@, [id |-> id, old |-> st.heap[id].scope,
                                new |-> scope, stage |-> stage])]

\* The assignment element.props.__scope = scope.
WriteScope(st, id, scope, stage) ==
  [st EXCEPT !.heap[id].scope = scope,
             !.log = Append(@, [id |-> id, old |-> st.heap[id].scope,
                                new |-> scope, stage |-> stage])]

RECURSIVE ApplyScope(_, _, _, _)
RECURSIVE ApplyScopeChildren(_, _, _, _)
RECURSIVE ApplyScopeItems(_, _, _, _, _)

\* children.forEach((child) => applyScopeChildren(child, scope))
ApplyScopeItems(st, items, i, scope, stage) ==
  IF i > Len(items) THEN st
  ELSE ApplyScopeItems(ApplyScopeChildren(st, items[i], scope, stage),
                       items, i + 1, scope, stage)

ApplyScopeChildren(st, children, scope, stage) ==
  IF children.t = "str" THEN st
  ELSE IF children.t = "arr" THEN ApplyScopeItems(st, children.items, 1, scope, stage)
  ELSE IF children.t = "ref" THEN ApplyScope(st, children.id, scope, stage)
  ELSE st

\* applyScope without the recursion into the children
ApplyScopeShallow(st, id, scope, stage) ==
  IF st.heap[id].scope = NoScope THEN WriteScope(st, id, scope, stage) ELSE st

\* applyScope without the test that the scope key is still unset
ApplyScopeUnguarded(st, id, scope, stage) ==
  ApplyScopeChildren(WriteScope(st, id, scope, stage),
                     st.heap[id].children, scope, stage)

\* Every element is made by jsx and so has props: the branch that creates
\* a missing props object is never taken.
ApplyScope(st, id, scope, stage) ==
  LET st1 == IF st.heap[id].scope = NoScope
             THEN WriteScope(st, id, scope, stage)
             ELSE st
  IN  ApplyScopeChildren(st1, st.heap[id].children, scope, stage)

(***************************************************************************)
(* Components: functions from props (with children) to a freshly built     *)
(* element.                                                                *)
(*   Layout   = ({children}) => <div>{children}</div>                      *)
(*   Greeting = ({children}) => <div>{children}<span>hi</span></div>       *)
(*   Nest     = () => <Layout><h1>Hello</h1></Layout>                      *)
(* Layout is a styleless wrapper; Greeting has a literal style and a       *)
(* script and places its children in an array next to its own markup;      *)
(* Nest invokes Layout inside its body, and has a style computed from its  *)
(* props and a script.                                                     *)
(***************************************************************************)
Alloc(st, obj) == [st EXCEPT !.heap = Append(@, obj)]

Invoke(st, c, children) ==
  IF c = "Layout"
  THEN [st |-> Alloc(st, Jsx("div", children, NoProps)),
        inner |-> Len(st.heap) + 1]
  ELSE IF c = "Greeting"
  THEN [st |-> Alloc(Alloc(st, Jsx("span", Str("hi"), NoProps)),
                     Jsx("div", Arr(<<children, Ref(Len(st.heap) + 1)>>), NoProps)),
        inner |-> Len(st.heap) + 2]
  ELSE [st |-> Alloc(Alloc(st, Jsx("h1", Str("Hello"), NoProps)),
                     Jsx("Layout", Ref(Len(st.heap) + 1), NoProps)),
        inner |-> Len(st.heap) + 2]

NoStyle == [s |-> "none"]

\* element.element.style, a string or a function of element.props
StyleOf(c, element) ==
  IF c = "Greeting" THEN [s |-> "lit", text |-> ".g{color:red}"]
  ELSE IF c = "Nest" THEN [s |-> "fn", of |-> element.rest]
  ELSE NoStyle

NoScript == "none"

\* element.element.script
ScriptOf(c) == IF c \in {"Greeting", "Nest"} THEN c ELSE NoScript

(***************************************************************************)
(* Resolved nodes.                                                         *)
(***************************************************************************)
\* node_.props = { __scope: "", ...element.props }
ResolvedProps(element) == [scope |-> element.scope, rest |-> element.rest]

\* src is an auxiliary field, not a field of the source's node: the heap
\* index of the element the node was resolved from (0 for an array).
VirtualNode(src, children, props, style, script) ==
  [t |-> "node", kind |-> "virtual", tag |-> "", children |-> children,
   props |-> props, scope |-> props.scope, style |-> style, script |-> script,
   src |-> src]

IntrinsicNode(src, tag, children, props) ==
  [t |-> "node", kind |-> "intrinsic", tag |-> tag, children |-> children,
   props |-> props, scope |-> props.scope, style |-> NoStyle, script |-> NoScript,
   src |-> src]

\* filter((x) => x): undefined and the empty string are falsy.
Truthy(v) == v # Absent /\ v # Str("")

\* the map over the children without the filter
KeepAll(s) == s

RECURSIVE FilterTruthy(_)
FilterTruthy(s) ==
  IF s = <<>> THEN <<>>
  ELSE (IF Truthy(Head(s)) THEN <<Head(s)>> ELSE <<>>) \o FilterTruthy(Tail(s))

RECURSIVE Render(_, _)
RECURSIVE RenderChildren(_, _)
RECURSIVE RenderItems(_, _, _)

\* one more result of the map: the state after it, and the results so far
Mapped(r, acc) == [st |-> r.st, val |-> Append(acc, r.val)]

\* children.map((child) => renderChildren(child)), left to right; r holds
\* the state and the results so far
RenderItems(r, items, i) ==
  IF i > Len(items) THEN r
  ELSE RenderItems(Mapped(RenderChildren(r.st, items[i]), r.val), items, i + 1)

\* renderChildren returning undefined for a list that renders empty
RenderChildrenEmptyAbsent(st, children) ==
  IF children.t = "str" THEN [st |-> st, val |-> children]
  ELSE IF children.t = "arr"
  THEN [RenderItems([st |-> st, val |-> <<>>], children.items, 1)
          EXCEPT !.val = IF FilterTruthy(@) = <<>> THEN Absent
                         ELSE Arr(FilterTruthy(@))]
  ELSE IF children.t = "ref" THEN Render(st, children)
  ELSE [st |-> st, val |-> Absent]

RenderChildren(st, children) ==
  IF children.t = "str" THEN [st |-> st, val |-> children]
  ELSE IF children.t = "arr"
  THEN [RenderItems([st |-> st, val |-> <<>>], children.items, 1)
          EXCEPT !.val = Arr(FilterTruthy(@))]
  ELSE IF children.t = "ref" THEN Render(st, children)
  ELSE [st |-> st, val |-> Absent]

\* the own step without the assignment: an inherited token stays
OwnScopeKeepInherited(st, id, newScope) ==
  ApplyScope(st, id, newScope, "pre")

\* applyScope(element, newScope); element.props.__scope = newScope
OwnScope(st, id, newScope) ==
  WriteScope(ApplyScope(st, id, newScope, "pre"), id, newScope, "own")

\* const inner = element.element({...element.props, children: element.children})
InvokeElement(st, id) == Invoke(st, st.heap[id].element, st.heap[id].children)

\* applyScope(inner, newScope); node.children = render(inner)
RenderInner(inv, newScope) ==
  Render(ApplyScope(inv.st, inv.inner, newScope, "post"), Ref(inv.inner))

\* render(inner) without the propagation onto the returned subtree
RenderInnerNoPost(inv) == Render(inv.st, Ref(inv.inner))

\* the component branch detaching the children it has resolved
RenderComponentConsuming(st, id, newScope) ==
  [RenderInner(InvokeElement(OwnScope(st, id, newScope), id), newScope)
     EXCEPT !.st.heap[id].children = Absent]

\* the component branch without the propagation onto the returned subtree
RenderComponentNoPost(st, id, newScope) ==
  RenderInnerNoPost(InvokeElement(OwnScope(st, id, newScope), id))

\* the branch of render for element.element !== Fragment
RenderComponent(st, id, newScope) ==
  RenderInner(InvokeElement(OwnScope(st, id, newScope), id), newScope)

\* the Virtual node of a function element whose children were resolved by r
ResolvedVirtual(r, id) ==
  [st |-> r.st,
   val |-> VirtualNode(id, r.val, ResolvedProps(r.st.heap[id]),
                       StyleOf(r.st.heap[id].element, r.st.heap[id]),
                       ScriptOf(r.st.heap[id].element))]

\* the Intrinsic node of a tag whose children were resolved by r
ResolvedIntrinsic(r, id) ==
  [st |-> r.st,
   val |-> IntrinsicNode(id, r.st.heap[id].element, r.val,
                         ResolvedProps(r.st.heap[id]))]

\* const newScope = randString(8)
Drawn(st) == [st EXCEPT !.ctr = RandString(st)]

Render(st, element) ==
  IF element = Absent \/ element = Arr(<<>>)
  THEN [st |-> st, val |-> Absent]
  ELSE IF element.t = "arr"
  THEN \* an array has no .element, no .children and no .props
       [st |-> st,
        val |-> IntrinsicNode(0, "undefined", Absent,
                              [scope |-> NoScope, rest |-> NoProps])]
  ELSE IF IsFunction(st.heap[element.id].element)
  THEN ResolvedVirtual(
         IF st.heap[element.id].element # Fragment
         THEN RenderComponent(Drawn(st), element.id, RandString(st))
         ELSE RenderChildren(Drawn(st), st.heap[element.id].children),
         element.id)
  ELSE ResolvedIntrinsic(RenderChildren(st, st.heap[element.id].children),
                         element.id)

(***************************************************************************)
(* runScript: the hydration walk.  A behavior is identified by the path of *)
(* its node in the resolved tree; `bad` is the path of the node whose      *)
(* callback throws (NoFail when none does).  An exception thrown by        *)
(* node.script() is caught nowhere in runScript, so it unwinds every       *)
(* enclosing call: once rs.threw holds nothing more is executed.           *)
(***************************************************************************)
NoFail == <<0>>

RECURSIVE RunScript(_, _, _, _)
RECURSIVE RunScriptItems(_, _, _, _, _)

\* for (const child of node.children) runScript(child)
RunScriptItems(rs, items, i, path, bad) ==
  IF i > Len(items) \/ rs.threw THEN rs
  ELSE RunScriptItems(RunScript(rs, items[i], path \o <<i>>, bad),
                      items, i + 1, path, bad)

RunScript(rs, node, path, bad) ==
  IF node.t # "node"
  THEN rs  \* a string or a nested array: no .kind, no .script, no .children
  ELSE LET rs1 == IF node.kind = "virtual" /\ node.script # NoScript
                  THEN [ran |-> Append(rs.ran, [path |-> path, script |-> node.script]),
                        threw |-> path = bad]
                  ELSE rs
       IN  IF rs1.threw THEN rs1
           ELSE IF node.children.t = "arr"
           THEN RunScriptItems(rs1, node.children.items, 1, path, bad)
           ELSE IF node.children.t = "node"
           THEN RunScript(rs1, node.children, path \o <<1>>, bad)
           ELSE rs1

(***************************************************************************)
(* loadGenerator.  The module's default export is an object, modelled as   *)
(* the sequence of its entries in insertion order, each a relative path    *)
(* suffix and a component.  Paths are sequences of segments.               *)
(***************************************************************************)
\* Deno.core.ops.join_path(root, relpath)
JoinPath(root, relpath) == root \o relpath

\* new Map(entries): a later entry with the same key replaces an earlier one
RECURSIVE MapOf(_)
MapOf(entries) ==
  IF entries = <<>> THEN <<>>
  ELSE LET n == Len(entries)
           init == MapOf(SubSeq(entries, 1, n - 1))
           key == entries[n][1]
       IN  [k \in DOMAIN init \cup {key} |->
              IF k = key THEN entries[n][2] ELSE init[k]]

\* const page = jsx(fn, page_props); return [path, render(page)]
RenderPage(st, fn, page_props, path) ==
  [Render(Alloc(st, Jsx(fn, Absent, page_props)), Ref(Len(st.heap) + 1))
     EXCEPT !.val = <<path, @>>]

\* the iteration passing on the props it was given, path and all
LoadEntryBasePath(st, root, props, mod) ==
  RenderPage(st, mod.fn, props, JoinPath(root, mod.relpath))

\* one iteration of the map over Object.entries(mods)
LoadEntry(st, root, props, mod) ==
  RenderPage(st, mod.fn, [props EXCEPT !.path = JoinPath(root, mod.relpath)],
             JoinPath(root, mod.relpath))

\* Object.entries(mods).map(...), in insertion order; r holds the state and
\* the entries so far
RECURSIVE LoadEntries(_, _, _, _, _)
LoadEntries(r, root, props, mods, i) ==
  IF i > Len(mods) THEN r
  ELSE LoadEntries(Mapped(LoadEntry(r.st, root, props, mods[i]), r.val),
                   root, props, mods, i + 1)

LoadGenerator(st, mods, props) ==
  [LoadEntries([st |-> st, val |-> <<>>], props.path, props, mods, 1)
     EXCEPT !.val = MapOf(@)]

(***************************************************************************)
(* The state machine.                                                      *)
(*   heap    : the JSX elements created so far                             *)
(*   stack   : the elements that are no other element's child yet, in      *)
(*             creation order (a JSX expression is evaluated bottom-up)    *)
(*   ctr     : the number of tokens randString has handed out              *)
(*   renders : one record per call of render, in order                     *)
(*   hyd     : the hydration walk, once runScript was called               *)
(*   gen     : the result of loadGenerator                                 *)
(***************************************************************************)
NoHyd == [h |-> "none"]
NoGen == [g |-> "none"]

Init ==
  /\ heap = <<>>
  /\ stack = <<>>
  /\ ctr = 0
  /\ renders = <<>>
  /\ hyd = NoHyd
  /\ gen = NoGen

\* what a JSX expression is built from here; Layout and Nest are resolved
\* as the pages of a generator module
Elements == Tags \cup {Fragment} \cup {"Greeting"}

\* the shapes of a child array: holes, strings, and places for elements
ItemKinds == {Absent, Str(""), Ref(0)}

Count(items, S) == Cardinality({i \in DOMAIN items : items[i] \in S})

\* the k places of a shape take the last k elements of the stack, in order
Fill(shape, stk) ==
  LET k == Count(shape, {Ref(0)})
  IN  [i \in DOMAIN shape |->
         IF shape[i] = Ref(0)
         THEN Ref(stk[Len(stk) - k + Count(SubSeq(shape, 1, i), {Ref(0)})])
         ELSE shape[i]]

\* the shapes with at most `room` holes and strings
Shapes(stk, room) ==
  {shape \in UNION {[1..n -> ItemKinds] : n \in 0..(room + Len(stk))} :
     /\ Count(shape, {Ref(0)}) <= Len(stk)
     /\ Len(shape) - Count(shape, {Ref(0)}) <= room}

ChildChoices(stk, room) ==
  {Absent, Str("hi")}
    \cup (IF stk = <<>> THEN {} ELSE {Ref(stk[Len(stk)])})
    \cup {Arr(Fill(shape, stk)) : shape \in Shapes(stk, room)}

Adopted(c) ==
  IF c.t = "ref" THEN 1
  ELSE IF c.t = "arr" THEN Count(c.items, {Ref(i) : i \in 1..Len(heap)})
  ELSE 0

Loose(c) == IF c.t = "arr" THEN Len(c.items) - Adopted(c) ELSE 0

\* the elements of a heap and the holes and strings in their child arrays
RECURSIVE Size(_)
Size(h) ==
  IF h = <<>> THEN 0
  ELSE 1 + Loose(h[Len(h)].children) + Size(SubSeq(h, 1, Len(h) - 1))

\* jsx(element, {children}) / jsxs(element, {children: [...]}); pending
\* elements are only built while there is room for the one that adopts them
JsxAct ==
  /\ gen = NoGen
  /\ renders = <<>>
  /\ Size(heap) < MaxSize
  /\ \E e \in Elements, c \in ChildChoices(stack, MaxSize - Size(heap) - 1) :
       /\ heap' = Append(heap, Jsx(e, c, NoProps))
       /\ stack' = Append(SubSeq(stack, 1, Len(stack) - Adopted(c)), Len(heap) + 1)
       /\ Len(stack') = 1 \/ Size(heap') < MaxSize
  /\ UNCHANGED <<ctr, renders, hyd, gen>>

Targets ==
  IF stack = <<>> THEN {Absent, Arr(<<>>), Arr(<<Str("hi")>>)}
  ELSE IF Len(stack) = 1 THEN {Ref(stack[1])}
  ELSE {}

Record(target, first, twin, pre, res) ==
  [target |-> target, first |-> first, twin |-> twin, pre |-> pre,
   post |-> res.st.heap, ctr0 |-> ctr, ctr1 |-> res.st.ctr,
   log |-> res.st.log, val |-> res.val]

\* what a call of render leaves behind: the BuilderNodes as it wrote them, the
\* allocator as it advanced it, and its record
Rendered(res, target, first, twin, pre) ==
  /\ heap' = res.st.heap
  /\ ctr' = res.st.ctr
  /\ renders' = Append(renders, Record(target, first, twin, pre, res))

\* render(element): of the tree just built (again, when it was rendered
\* before), or of undefined or an array
RenderAct ==
  /\ gen = NoGen
  /\ hyd = NoHyd
  /\ Len(renders) < MaxRenders
  /\ \E target \in Targets :
       Rendered(Render(ResolverState(heap, ctr), target), target,
                \A k \in DOMAIN renders : renders[k].target # target, 0, heap)
  /\ UNCHANGED <<stack, hyd, gen>>

(***************************************************************************)
(* Evaluating the same JSX expression a second time builds a structurally  *)
(* identical tree of fresh elements.                                       *)
(***************************************************************************)
RECURSIVE Clone(_, _, _)
RECURSIVE CloneItems(_, _, _, _, _)

CloneItems(src, dst, items, i, acc) ==
  IF i > Len(items) THEN [heap |-> dst, val |-> acc]
  ELSE LET c == Clone(src, dst, items[i])
       IN  CloneItems(src, c.heap, items, i + 1, Append(acc, c.val))

Clone(src, dst, v) ==
  IF v.t = "ref"
  THEN LET c == Clone(src, dst, src[v.id].children)
       IN  [heap |-> Append(c.heap, Jsx(src[v.id].element, c.val, src[v.id].rest)),
            val |-> Ref(Len(c.heap) + 1)]
  ELSE IF v.t = "arr"
  THEN LET c == CloneItems(src, dst, v.items, 1, <<>>)
       IN  [heap |-> c.heap, val |-> Arr(c.val)]
  ELSE [heap |-> dst, val |-> v]

\* render(c.val) for the elements c that the second evaluation built
RenderTwin(c, k) ==
  Rendered(Render(ResolverState(c.heap, ctr), c.val), c.val, TRUE, k, c.heap)

\* render of a second evaluation of the expression render k was given
TwinAct ==
  /\ gen = NoGen
  /\ hyd = NoHyd
  /\ Len(renders) < MaxRenders
  /\ \E k \in DOMAIN renders :
       /\ renders[k].first
       /\ renders[k].twin = 0
       /\ renders[k].target.t = "ref"
       /\ RenderTwin(Clone(renders[k].pre, heap, renders[k].target), k)
  /\ UNCHANGED <<stack, hyd, gen>>

\* the trees sent to the client: the one just rendered, and the loader's pages
ResolvedTrees ==
  (IF Len(renders) = 1 THEN {renders[1].val} ELSE {})
    \cup (IF gen = NoGen THEN {} ELSE {gen.map[key] : key \in DOMAIN gen.map})

NoRun == [ran |-> <<>>, threw |-> FALSE]

ScriptPaths(v) ==
  LET walk == RunScript(NoRun, v, <<>>, NoFail).ran
  IN  {walk[i].path : i \in DOMAIN walk}

\* runScript(node) on a resolved tree; at most one behavior throws
RunScriptAct ==
  /\ hyd = NoHyd
  /\ \E v \in ResolvedTrees :
       /\ v.t = "node"
       /\ \E bad \in {NoFail} \cup ScriptPaths(v) :
            LET rs == RunScript(NoRun, v, <<>>, bad)
            IN  hyd' = [tree |-> v, bad |-> bad, ran |-> rs.ran, threw |-> rs.threw]
  /\ UNCHANGED <<heap, stack, ctr, renders, gen>>

Suffixes == {<<"a">>, <<"b">>, <<"a", "b">>}
Bases == {<<>>, <<"blog">>}

Modules ==
  {mods \in UNION {[1..n -> [relpath : Suffixes, fn : Comps]] : n \in 0..MaxMods} :
     \A i, j \in DOMAIN mods : i # j => mods[i].relpath # mods[j].relpath}

\* what a call of loadGenerator leaves behind, and the map it returns
Loaded(res, mods, props) ==
  /\ heap' = res.st.heap
  /\ ctr' = res.st.ctr
  /\ gen' = [mods |-> mods, props |-> props, map |-> res.val,
             post |-> res.st.heap, log |-> res.st.log]

\* loadGenerator(url, props) on a freshly imported module
LoadGeneratorAct ==
  /\ gen = NoGen
  /\ heap = <<>>
  /\ renders = <<>>
  /\ \E mods \in Modules, base \in Bases :
       Loaded(LoadGenerator(ResolverState(heap, ctr), mods, PageProps(base, "gen")),
              mods, PageProps(base, "gen"))
  /\ UNCHANGED <<stack, renders, hyd>>

Next ==
  \/ JsxAct
  \/ RenderAct
  \/ TwinAct
  \/ RunScriptAct
  \/ LoadGeneratorAct

Spec == Init /\ [][Next]_vars

(***************************************************************************)
(* Auxiliary definitions for stating properties of resolved trees.         *)
(***************************************************************************)
IsFragmentNode(n) == n.kind = "virtual" /\ n.src # 0 /\ heap[n.src].element = Fragment

\* a non-Fragment Virtual node: a component instance, its own scope boundary
IsBoundary(n) == n.kind = "virtual" /\ ~IsFragmentNode(n)

\* Every node of a resolved value, with the scope of the nearest boundary at
\* or above it (near), of the nearest boundary strictly above it (up), the
\* scopes of all boundaries at or above it (ancs) and their number (depth).
RECURSIVE Visit(_, _, _, _)
Visit(v, near, ancs, depth) ==
  IF v.t = "node"
  THEN LET near1 == IF IsBoundary(v) THEN v.scope ELSE near
           ancs1 == IF IsBoundary(v) THEN ancs \cup {v.scope} ELSE ancs
           depth1 == IF IsBoundary(v) THEN depth + 1 ELSE depth
       IN  {[n |-> v, near |-> near1, up |-> near, ancs |-> ancs1, depth |-> depth1]}
             \cup Visit(v.children, near1, ancs1, depth1)
  ELSE IF v.t = "arr"
  THEN UNION {Visit(v.items[i], near, ancs, depth) : i \in DOMAIN v.items}
  ELSE {}

NodesOf(v) == Visit(v, NoScope, {}, 0)

\* the scopes of the nodes of a resolved value, in pre-order
RECURSIVE ScopeSeq(_)
RECURSIVE ScopeSeqItems(_, _)
ScopeSeqItems(items, i) ==
  IF i > Len(items) THEN <<>>
  ELSE ScopeSeq(items[i]) \o ScopeSeqItems(items, i + 1)

ScopeSeq(v) ==
  IF v.t = "node" THEN <<v.scope>> \o ScopeSeq(v.children)
  ELSE IF v.t = "arr" THEN ScopeSeqItems(v.items, 1)
  ELSE <<>>

FirstPos(seq, tok) ==
  IF tok = NoScope \/ \A i \in DOMAIN seq : seq[i] # tok THEN 0
  ELSE CHOOSE i \in DOMAIN seq : seq[i] = tok /\ \A j \in 1..(i - 1) : seq[j] # tok

\* a resolved value with every scope token replaced by the position of its
\* first occurrence in seq (0 when it has none) and the auxiliary src field
\* cleared
RECURSIVE Rename(_, _)
Rename(v, seq) ==
  IF v.t = "node"
  THEN [v EXCEPT !.scope = FirstPos(seq, @), !.props.scope = FirstPos(seq, @),
                 !.src = 0, !.children = Rename(@, seq)]
  ELSE IF v.t = "arr"
  THEN Arr([i \in DOMAIN v.items |-> Rename(v.items[i], seq)])
  ELSE v

\* the tree up to the values of its scope tokens: each token is replaced by
\* the pre-order position of its first occurrence
Canon(v) == Rename(v, ScopeSeq(v))

\* the tree with every scope erased
Unscoped(v) == Rename(v, <<>>)

\* the BuilderNode tree below a child value, as a value without identities
RECURSIVE Tree(_, _)
Tree(h, v) ==
  IF v.t = "ref"
  THEN [element |-> h[v.id].element, rest |-> h[v.id].rest,
        scope |-> h[v.id].scope, children |-> Tree(h, h[v.id].children)]
  ELSE IF v.t = "arr"
  THEN Arr([i \in DOMAIN v.items |-> Tree(h, v.items[i])])
  ELSE v

IsElementTarget(rec) == rec.target.t = "ref"

RootElement(rec) == rec.pre[rec.target.id]

\* the resolved trees of fresh input: first renders, and the loader's pages
FreshTrees ==
  {renders[k].val : k \in {j \in DOMAIN renders : renders[j].first}}
    \cup (IF gen = NoGen THEN {} ELSE {gen.map[key] : key \in DOMAIN gen.map})

\* the nodes of a resolved value, in pre-order
RECURSIVE NodeSeq(_)
RECURSIVE NodeSeqItems(_, _)
NodeSeqItems(items, i) ==
  IF i > Len(items) THEN <<>>
  ELSE NodeSeq(items[i]) \o NodeSeqItems(items, i + 1)

NodeSeq(v) ==
  IF v.t = "node" THEN <<v>> \o NodeSeq(v.children)
  ELSE IF v.t = "arr" THEN NodeSeqItems(v.items, 1)
  ELSE <<>>

NumVirtual(v) == Len(SelectSeq(NodeSeq(v), LAMBDA n : n.kind = "virtual"))

NumBoundaries(v) == Len(SelectSeq(NodeSeq(v), LAMBDA n : IsBoundary(n)))

AllLogs ==
  {renders[k].log : k \in DOMAIN renders}
    \cup (IF gen = NoGen THEN {} ELSE {gen.log})

(***************************************************************************)
(* C1.  A component rendered as the root.                                  *)
(***************************************************************************)
\* C1: when a component is the root given to render, the result is a
\* Virtual node with a non-empty scope S, and every resolved descendant
\* that is not inside a nested component instance (the nested instance's
\* own node included) has scope S.
C1_RootScopeShared ==
  \A v \in FreshTrees :
    (v.t = "node" /\ IsBoundary(v)) =>
      /\ v.scope # NoScope
      /\ \A x \in NodesOf(v) : x.depth = 1 => x.n.scope = v.scope

\* Greeting wrapping an element: the div and span it synthesizes and the
\* child passed in
C1_Witness ==
  \E k \in DOMAIN renders :
    /\ renders[k].first
    /\ IsElementTarget(renders[k])
    /\ RootElement(renders[k]).element = "Greeting"
    /\ RootElement(renders[k]).children.t = "ref"
    /\ renders[k].pre[RootElement(renders[k]).children.id].element \in Tags
    /\ renders[k].val.children.t = "node"
    /\ renders[k].val.children.children.t = "arr"
    /\ renders[k].val.children.children.items[1].t = "node"
    /\ renders[k].val.children.children.items[1].scope = renders[k].val.scope

C3_NeverChanged ==
  \A log \in AllLogs : \A i, j \in DOMAIN log :
    (i < j /\ log[i].id = log[j].id) => log[j].new = log[i].new

\* C3 as amended: the two propagation steps write only unset scope keys; a
\* set key is changed only by the own-resolution step of a non-Fragment
\* component, which replaces the inherited token by the fresh one, and
\* nothing changes it afterwards in that pass.
C3_OnlyOwnStepOverwrites ==
  \A log \in AllLogs : \A j \in DOMAIN log :
    /\ log[j].stage \in {"pre", "post"} => log[j].old = NoScope
    /\ log[j].stage = "own" => heap[log[j].id].element \in Comps
    /\ \A i \in 1..(j - 1) :
         log[i].id = log[j].id => log[j].stage = "own" /\ log[i].stage # "own"

\* a nested component whose inherited token is replaced by its own
C3_Witness ==
  \E log \in AllLogs : \E i, j \in DOMAIN log :
    /\ i < j
    /\ log[i].id = log[j].id
    /\ log[j].old # NoScope
    /\ log[j].new # log[j].old

(***************************************************************************)
(* C4.  Rendering a Fragment.                                              *)
(***************************************************************************)
IsFragmentRoot(rec) ==
  IsElementTarget(rec) /\ RootElement(rec).element = Fragment

\* one child resolved on its own, from the state the pass started in
ChildResolution(rec, child) ==
  Canon(RenderChildren(ResolverState(rec.pre, rec.ctr0), child).val)

CanonItems(items) == [i \in DOMAIN items |-> Canon(items[i])]

\* the children of a Fragment: each child resolved on its own, in order, the
\* ones failing Keep dropped
FragmentChildrenAre(rec, Keep(_)) ==
  LET children == RootElement(rec).children
  IN  IF children.t = "arr"
      THEN /\ rec.val.children.t = "arr"
           /\ CanonItems(rec.val.children.items)
                = SelectSeq([i \in DOMAIN children.items |->
                               ChildResolution(rec, children.items[i])], Keep)
      ELSE Canon(rec.val.children) = ChildResolution(rec, children)

\* C4 as claimed: a Fragment resolves to a Virtual node without drawing
\* from the allocator, with the scope already on its props (or none), no
\* style, no behavior, and its children resolved element-wise in order,
\* those resolving to absent dropped.
C4_FragmentAsClaimed ==
  \A k \in DOMAIN renders :
    IsFragmentRoot(renders[k]) =>
      /\ renders[k].val.kind = "virtual"
      /\ renders[k].ctr1 - renders[k].ctr0 = NumBoundaries(renders[k].val)
      /\ renders[k].val.scope = RootElement(renders[k]).scope
      /\ renders[k].val.style = NoStyle
      /\ renders[k].val.script = NoScript
      /\ FragmentChildrenAre(renders[k], LAMBDA c : c # Absent)

\* C4 as amended: a Fragment resolves to a Virtual node whose scope is the
\* one already on its props (or none), never the token drawn for it: every
\* function element, Fragment included, draws one token, and a Fragment's
\* is discarded.  It has no style and no behavior, and its children are
\* resolved element-wise in order, those resolving to absent or to the
\* empty string dropped.
C4_Fragment ==
  /\ \A k \in DOMAIN renders :
       IsFragmentRoot(renders[k]) =>
         /\ renders[k].val.kind = "virtual"
         /\ renders[k].ctr1 - renders[k].ctr0 = NumVirtual(renders[k].val)
         /\ renders[k].val.scope = RootElement(renders[k]).scope
         /\ renders[k].val.scope <= renders[k].ctr0
         /\ renders[k].val.style = NoStyle
         /\ renders[k].val.script = NoScript
         /\ FragmentChildrenAre(renders[k], Truthy)
  /\ \A v \in FreshTrees : \A x \in NodesOf(v) :
       IsFragmentNode(x.n) =>
         /\ x.n.style = NoStyle
         /\ x.n.script = NoScript
         /\ x.ancs = {} => x.n.scope = NoScope
         /\ x.n.scope \in x.ancs \cup {NoScope}

\* a Fragment over a list holding an element and a hole
C4_Witness ==
  \E k \in DOMAIN renders :
    /\ IsFragmentRoot(renders[k])
    /\ RootElement(renders[k]).children.t = "arr"
    /\ \E i, j \in DOMAIN RootElement(renders[k]).children.items :
         /\ RootElement(renders[k]).children.items[i] = Absent
         /\ RootElement(renders[k]).children.items[j].t = "ref"
    /\ Len(renders[k].val.children.items) = 1

(***************************************************************************)
(* C5.  When render returns absent.                                        *)
(***************************************************************************)
IsEmptyFragment(rec) ==
  IsFragmentRoot(rec) /\ RootElement(rec).children = Arr(<<>>)

\* C5 as claimed: render returns absent for an absent input, for an empty
\* sequence and for a Fragment built with an empty children list.
C5_AbsentAsClaimed ==
  \A k \in DOMAIN renders :
    (renders[k].target \in {Absent, Arr(<<>>)} \/ IsEmptyFragment(renders[k]))
      => renders[k].val = Absent

\* C5 as amended: render returns absent for an absent input and for an
\* empty sequence, and for nothing else; a Fragment built with an empty
\* children list resolves to a Virtual node whose children are the empty
\* sequence.
C5_AbsentOnlyForEmptyInput ==
  \A k \in DOMAIN renders :
    /\ renders[k].val = Absent <=> renders[k].target \in {Absent, Arr(<<>>)}
    /\ IsEmptyFragment(renders[k]) =>
         /\ renders[k].val.kind = "virtual"
         /\ renders[k].val.children = Arr(<<>>)

\* a Fragment with an empty children list has been rendered
C5_Witness ==
  \E k \in DOMAIN renders :
    IsEmptyFragment(renders[k]) /\ renders[k].val.t = "node"

(***************************************************************************)
(* C6.  The order of the hydration walk.                                   *)
(***************************************************************************)
RECURSIVE PreOrder(_, _)
RECURSIVE PreOrderItems(_, _, _)

PreOrderItems(items, i, path) ==
  IF i > Len(items) THEN <<>>
  ELSE PreOrder(items[i], path \o <<i>>) \o PreOrderItems(items, i + 1, path)

\* the behaviors of a resolved value in depth-first pre-order, sequences
\* nested to any depth included
PreOrder(v, path) ==
  IF v.t = "node"
  THEN (IF v.kind = "virtual" /\ v.script # NoScript
        THEN <<[path |-> path, script |-> v.script]>> ELSE <<>>)
       \o (IF v.children.t = "arr" THEN PreOrderItems(v.children.items, 1, path)
           ELSE IF v.children.t = "node" THEN PreOrder(v.children, path \o <<1>>)
           ELSE <<>>)
  ELSE IF v.t = "arr" THEN PreOrderItems(v.items, 1, path)
  ELSE <<>>

\* C6: when no callback fails, runScript invokes the behavior of every
\* Virtual node that has one, exactly once, in depth-first pre-order.
C6_EveryBehaviorInPreOrder ==
  (hyd # NoHyd /\ hyd.bad = NoFail) => hyd.ran = PreOrder(hyd.tree, <<>>)

(***************************************************************************)
(* C7.  A failing behavior.                                                *)
(***************************************************************************)
\* C7: when one behavior throws, the others are still invoked, in the same
\* order as when none throws.
C7_FailureIsolated ==
  hyd # NoHyd => hyd.ran = RunScript(NoRun, hyd.tree, <<>>, NoFail).ran

(***************************************************************************)
(* C8.  What render does to the BuilderNodes.                              *)
(***************************************************************************)
\* C8 as claimed: render leaves every BuilderNode as it was.
C8_BuilderNodesUnchanged ==
  \A k \in DOMAIN renders : \A id \in DOMAIN renders[k].pre :
    renders[k].post[id] = renders[k].pre[id]

\* C8 as amended: render leaves the reference, the children and every prop
\* but the scope key of every BuilderNode unchanged, and leaves a tree
\* without components wholly unchanged; resolving a component writes its
\* fresh token into the scope key of BuilderNodes in place.  The page
\* elements the loader builds keep the page props too.
C8_OnlyScopeKeyWritten ==
  /\ \A k \in DOMAIN renders :
       /\ Len(renders[k].post) >= Len(renders[k].pre)
       /\ \A id \in DOMAIN renders[k].pre :
            /\ [renders[k].post[id] EXCEPT !.scope = renders[k].pre[id].scope]
                 = renders[k].pre[id]
            /\ renders[k].post[id].scope # renders[k].pre[id].scope
                 => renders[k].post[id].scope \in (renders[k].ctr0 + 1)..renders[k].ctr1
       /\ NumBoundaries(renders[k].val) = 0
            => SubSeq(renders[k].post, 1, Len(renders[k].pre)) = renders[k].pre
  /\ gen # NoGen =>
       \A i \in DOMAIN gen.mods :
         LET key == JoinPath(gen.props.path, gen.mods[i].relpath)
             page == gen.post[gen.map[key].src]
         IN  [page EXCEPT !.scope = NoScope]
               = Jsx(gen.mods[i].fn, Absent, [gen.props EXCEPT !.path = key])

\* a render that wrote the scope key of the root and of a child passed in
C8_Witness ==
  \E k \in DOMAIN renders :
    /\ IsElementTarget(renders[k])
    /\ RootElement(renders[k]).children.t = "ref"
    /\ renders[k].post[renders[k].target.id].scope # NoScope
    /\ renders[k].post[RootElement(renders[k]).children.id].scope # NoScope
    /\ renders[k].pre[RootElement(renders[k]).children.id].scope = NoScope

(***************************************************************************)
(* C9.  Determinism up to the values of the tokens.                        *)
(***************************************************************************)
SameExpression(i, j) ==
  /\ renders[i].first
  /\ renders[j].first
  /\ Tree(renders[i].pre, renders[i].target) = Tree(renders[j].pre, renders[j].target)

\* C9 as claimed: two structurally identical trees, or the same tree given
\* to render twice, resolve to trees that are equal up to the values of the
\* scope tokens, with the same pattern of shared tokens.
C9_SameInputSamePattern ==
  \A i, j \in DOMAIN renders :
    (/\ i < j
     /\ IsElementTarget(renders[i])
     /\ IsElementTarget(renders[j])
     /\ (SameExpression(i, j) \/ renders[i].target = renders[j].target))
      => Canon(renders[i].val) = Canon(renders[j].val)

\* C9 as amended: two structurally identical trees that were not rendered
\* before resolve to trees that are equal up to the values of the scope
\* tokens, with the same pattern of shared tokens; the same tree given to
\* render a second time resolves to a tree of the same shape, kinds, tags,
\* other props, styles and behaviors, whose scopes may follow another
\* pattern.
C9_Deterministic ==
  \A i, j \in DOMAIN renders :
    (i < j /\ IsElementTarget(renders[i]) /\ IsElementTarget(renders[j])) =>
      /\ SameExpression(i, j) => Canon(renders[i].val) = Canon(renders[j].val)
      /\ renders[i].target = renders[j].target
           => Unscoped(renders[i].val) = Unscoped(renders[j].val)

\* two evaluations of one expression with nested components, resolved with
\* different tokens
C9_Witness ==
  \E i, j \in DOMAIN renders :
    /\ renders[j].twin = i
    /\ NumBoundaries(renders[i].val) >= 2
    /\ renders[i].val # renders[j].val
    /\ Canon(renders[i].val) = Canon(renders[j].val)

(***************************************************************************)
(* C10.  loadGenerator.                                                    *)
(***************************************************************************)
\* the page of one entry resolved on its own, in a fresh runtime
AloneResolution(fn, page_props) ==
  Render(ResolverState(<<Jsx(fn, Absent, page_props)>>, 0), Ref(1)).val

TokensOf(v) == {ScopeSeq(v)[i] : i \in DOMAIN ScopeSeq(v)} \ {NoScope}

\* C10: the keys of the map loadGenerator returns are exactly the joins of
\* the base path with the suffixes, one entry per suffix; each value is the
\* render of the entry's component with the page props whose path is the
\* joined route; and each entry is resolved independently: its tree is the
\* one it has when resolved alone, up to the values of the tokens, and it
\* shares no token with another entry.
C10_Generator ==
  gen # NoGen =>
    /\ DOMAIN gen.map
         = {JoinPath(gen.props.path, gen.mods[i].relpath) : i \in DOMAIN gen.mods}
    /\ Cardinality(DOMAIN gen.map) = Len(gen.mods)
    /\ \A i \in DOMAIN gen.mods :
         LET key == JoinPath(gen.props.path, gen.mods[i].relpath)
             page_props == [gen.props EXCEPT !.path = key]
         IN  /\ gen.map[key].kind = "virtual"
             /\ gen.map[key].props.rest = page_props
             /\ Canon(gen.map[key]) = Canon(AloneResolution(gen.mods[i].fn, page_props))
    /\ \A k1, k2 \in DOMAIN gen.map :
         k1 # k2 => TokensOf(gen.map[k1]) \cap TokensOf(gen.map[k2]) = {}

\* a module of two pages loaded under the base path /blog
C10_Witness ==
  /\ gen # NoGen
  /\ Len(gen.mods) = 2
  /\ gen.props.path = <<"blog">>
  /\ Cardinality(DOMAIN gen.map) = 2

(***************************************************************************)
(* C11.  The scope of a component instance is its own token.               *)
(***************************************************************************)
\* the passes made so far: the resolved tree, the writes to scope keys, and
\* the allocator before and after
Passes ==
  {[val |-> renders[k].val, log |-> renders[k].log,
    ctr0 |-> renders[k].ctr0, ctr1 |-> renders[k].ctr1] : k \in DOMAIN renders}
    \cup (IF gen = NoGen THEN {}
          ELSE {[val |-> gen.map[key], log |-> gen.log, ctr0 |-> 0, ctr1 |-> ctr] :
                  key \in DOMAIN gen.map})

\* the component instances of a resolved value, in pre-order
BoundarySeq(v) == SelectSeq(NodeSeq(v), IsBoundary)

\* C11: every non-Fragment component instance carries as its scope the token
\* drawn in its own resolution step (written by that step, and drawn during
\* the pass), also when its BuilderNode held an ancestor's token before; no
\* two component instances of one resolved tree have the same scope, and a
\* nested component's scope differs from its enclosing component's.
C11_OwnFreshScope ==
  \A p \in Passes :
    /\ \A i \in DOMAIN BoundarySeq(p.val) :
         LET n == BoundarySeq(p.val)[i]
         IN  /\ n.scope \in (p.ctr0 + 1)..p.ctr1
             /\ \E j \in DOMAIN p.log :
                  /\ p.log[j].id = n.src
                  /\ p.log[j].stage = "own"
                  /\ p.log[j].new = n.scope
             /\ \A k \in DOMAIN BoundarySeq(p.val) :
                  k # i => BoundarySeq(p.val)[k].scope # n.scope
    /\ \A x \in NodesOf(p.val) :
         (IsBoundary(x.n) /\ x.depth > 1) => x.n.scope # x.up

\* a nested component whose BuilderNode first received its ancestor's token
\* and carries its own in the resolved tree
C11_Witness ==
  \E p \in Passes : \E x \in NodesOf(p.val) :
    /\ IsBoundary(x.n)
    /\ x.depth > 1
    /\ x.n.scope # x.up
    /\ \E j \in DOMAIN p.log :
         /\ p.log[j].id = x.n.src
         /\ p.log[j].stage = "own"
         /\ p.log[j].old = x.up

====
